---- MODULE Spec2Model ----
(***************************************************************************)
(* toyplex: Node (one LP relaxation, tableau builder and basic-solution    *)
(* readout) and Model (branch-and-bound controller) of toyplex/model.py,   *)
(* together with the tableau simplex engine they call (toyplex.simplex).   *)
(* Numbers are exact rationals <<n, d>>; math.inf is <<1, 0>>.             *)
(***************************************************************************)
EXTENDS Integers, Sequences, FiniteSets, TLC

(* ------------------------------------------------------------------ *)
(* Exact arithmetic                                                     *)
(* ------------------------------------------------------------------ *)
\* None for a number or an array that is not set yet
None == <<>>

Abs(n) == IF n < 0 THEN -n ELSE n

RECURSIVE Gcd(_, _)
Gcd(a, b) == IF b = 0 THEN a ELSE Gcd(b, a % b)

\* the rational n/d in lowest terms with a positive denominator
Rat(n, d) ==
    LET g == Gcd(Abs(n), Abs(d))
        s == IF d < 0 THEN -1 ELSE 1
    IN  <<(s * n) \div g, (s * d) \div g>>

R(n) == <<n, 1>>
Zero == <<0, 1>>
One == <<1, 1>>
PosInf == <<1, 0>>
NegInf == <<-1, 0>>

RAdd(a, b) == Rat(a[1] * b[2] + b[1] * a[2], a[2] * b[2])
RNeg(a) == <<-a[1], a[2]>>
RSub(a, b) == RAdd(a, RNeg(b))
RMul(a, b) == Rat(a[1] * b[1], a[2] * b[2])
RDiv(a, b) == Rat(a[1] * b[2], a[2] * b[1])
RLt(a, b) == a[1] * b[2] < b[1] * a[2]
RGt(a, b) == RLt(b, a)
RLe(a, b) == ~RLt(b, a)
RIsInt(a) == a[2] = 1
RFloor(a) == a[1] \div a[2]
RCeil(a) == -((-a[1]) \div a[2])

Range(s) == {s[i] : i \in DOMAIN s}


(* ------------------------------------------------------------------ *)
(* toyplex.simplex: the tableau engine called by Node.optimize          *)
(* ------------------------------------------------------------------ *)
MaxPivots == 12

ObjRow(tab) == tab[Len(tab)]
NCols(tab) == Len(tab[1])

\* the column of the most negative objective-row entry, leftmost on ties; 0 if none
EnteringCol(tab) ==
    LET obj == ObjRow(tab)
        neg == {c \in 1..(NCols(tab) - 1) : RLt(obj[c], Zero)}
    IN  IF neg = {} THEN 0
        ELSE CHOOSE c \in neg :
                \A d \in neg : RLt(obj[c], obj[d]) \/ (obj[c] = obj[d] /\ c <= d)

\* the row of minimum ratio among rows with a positive entry in column c,
\* smallest row index on ties; 0 if no row has a positive entry
LeavingRow(tab, c) ==
    LET pos == {r \in 1..(Len(tab) - 1) : RGt(tab[r][c], Zero)}
        ratio(r) == RDiv(tab[r][NCols(tab)], tab[r][c])
    IN  IF pos = {} THEN 0
        ELSE CHOOSE r \in pos :
                \A q \in pos : RLt(ratio(r), ratio(q)) \/ (ratio(r) = ratio(q) /\ r <= q)

\* Gauss-Jordan step around (r, c)
Pivot(tab, r, c) ==
    LET n == NCols(tab)
        prow == SubSeq([j \in 1..n |-> RDiv(tab[r][j], tab[r][c])], 1, n)
    IN  SubSeq([i \in 1..Len(tab) |->
                   IF i = r THEN prow
                   ELSE SubSeq([j \in 1..n |-> RSub(tab[i][j], RMul(tab[i][c], prow[j]))],
                               1, n)],
               1, Len(tab))

\* Simplex.solve: code 0 optimal, 1 unbounded; -1 while the pivot budget lasts
RECURSIVE SimplexSolve(_, _)
SimplexSolve(tab, fuel) ==
    LET c == EnteringCol(tab)
    IN  IF c = 0 THEN [code |-> 0, tab |-> tab]
        ELSE LET r == LeavingRow(tab, c)
             IN  IF r = 0 THEN [code |-> 1, tab |-> tab]
                 ELSE IF fuel = 0 THEN [code |-> -1, tab |-> tab]
                 ELSE SimplexSolve(Pivot(tab, r, c), fuel - 1)

(* ------------------------------------------------------------------ *)
(* toyplex.components: Var and LinConstr as the core uses them          *)
(* ------------------------------------------------------------------ *)
\* Var(name, type=type); val is assigned by Node.optimize
Var(name, type) == [name |-> name, type |-> type, val |-> None]

\* LinConstr: coefficient map (name -> number), sense, right-hand side b
LinConstr(coeffs, sense, b) == [coeffs |-> coeffs, sense |-> sense, b |-> b]

\* dict[key] = value on a coefficient map
SetKey(coeffs, key, value) == (key :> value) @@ coeffs

\* del dict[key]
DelKey(coeffs, key) == [k \in (DOMAIN coeffs) \ {key} |-> coeffs[k]]

(* ------------------------------------------------------------------ *)
(* class Node                                                           *)
(* ------------------------------------------------------------------ *)
NodeInit(key) ==
    [key |-> key, code |-> -1, sense |-> "min",
     vars |-> <<>>, slacks |-> <<>>, surplus |-> <<>>, constrs |-> <<>>,
     n_vars |-> 0, n_constrs |-> 0,
     objval |-> PosInf, objective |-> None, tab |-> None, spx |-> None]

\* the insertion-ordered views self.conts, self.bins, self.ints of self.vars
OfType(node, type) == SelectSeq(node.vars, LAMBDA v : v.type = type)

VarNames(node) == [i \in 1..Len(node.vars) |-> node.vars[i].name]

\* [*vars.keys()] + [*slacks.keys()] + [*surplus.keys()]
ColNames(node) == VarNames(node) \o node.slacks \o node.surplus

\* var_col[key]: a dict built by enumeration keeps the last index of a key
ColOf(names, key) == CHOOSE i \in 1..Len(names) :
                        names[i] = key /\ \A j \in (i + 1)..Len(names) : names[j] # key

NodeAddConstr(node, constr) ==
    IF constr.sense = "<="
    THEN LET name == "s" \o ToString(Len(node.slacks) + 1)
         IN  [node EXCEPT !.slacks = Append(@, name),
                          !.constrs = Append(@, [constr EXCEPT !.coeffs = SetKey(@, name, One)])]
    ELSE IF constr.sense = ">="
    THEN LET name == "p" \o ToString(Len(node.surplus) + 1)
         IN  [node EXCEPT !.surplus = Append(@, name),
                          !.constrs = Append(@, [constr EXCEPT !.coeffs = SetKey(@, name, RNeg(One))])]
    ELSE [node EXCEPT !.constrs = Append(@, constr)]

\* the name Node.add_var gives a variable declared without one
AutoName(node, type) ==
    (IF type = "cont" THEN "x" ELSE IF type = "bin" THEN "b" ELSE "i")
        \o ToString(Len(OfType(node, type)) + 1)

\* Node.add_var(type, lb, ub, name) with name already resolved; lb = 0 and
\* ub = math.inf are the defaults
NodeAddVar(node, type, lb, ub, name) ==
    LET declared == [node EXCEPT !.vars = Append(@, Var(name, type))]
        single == (name :> One)
    IN  IF type = "cont"
        THEN LET withLb == IF RGt(lb, Zero)
                           THEN NodeAddConstr(declared, LinConstr(single, ">=", lb))
                           ELSE declared
             IN  IF ub # PosInf
                 THEN NodeAddConstr(withLb, LinConstr(single, "<=", ub))
                 ELSE withLb
        ELSE IF type = "bin"
        THEN NodeAddConstr(declared, LinConstr(single, "<=", One))
        ELSE declared

\* Node.set_objective: the objective row; the constant term goes, negated, to
\* the right-hand side entry; the whole row is negated for sense max
NodeObjective(node, objexpr, sense) ==
    LET n == Len(node.vars) + Len(node.slacks) + Len(node.surplus) + 1
        names == VarNames(node)
        keys == (DOMAIN objexpr) \ {"const"}
        row == [j \in 1..n |->
                  IF j = n
                  THEN IF "const" \in DOMAIN objexpr THEN RNeg(objexpr["const"]) ELSE Zero
                  ELSE IF \E k \in keys : objexpr[k] # Zero /\ ColOf(names, k) = j
                  THEN objexpr[CHOOSE k \in keys : objexpr[k] # Zero /\ ColOf(names, k) = j]
                  ELSE Zero]
    IN  IF sense = "max" THEN [j \in 1..n |-> RNeg(row[j])] ELSE row

NodeSetObjective(node, objexpr, sense) ==
    [node EXCEPT !.objective = NodeObjective(node, objexpr, sense),
                 !.sense = IF sense = "max" THEN "max" ELSE @]

\* the constraint rows Node.set_tab fills before stacking the objective row
TabRows(node) ==
    LET names == ColNames(node)
        n == Len(names)
    IN  [i \in 1..Len(node.constrs) |->
            LET constr == node.constrs[i]
                keys == DOMAIN constr.coeffs
            IN  [j \in 1..(n + 1) |->
                    IF j = n + 1
                    THEN IF keys = {} THEN Zero ELSE constr.b
                    ELSE IF \E k \in keys : constr.coeffs[k] # Zero /\ ColOf(names, k) = j
                    THEN constr.coeffs[CHOOSE k \in keys :
                                           constr.coeffs[k] # Zero /\ ColOf(names, k) = j]
                    ELSE Zero]]

\* np.vstack((self.tab, self.objective)) needs an objective row of the tableau's width
StackOk(node) ==
    /\ node.objective # None
    /\ Len(node.objective) = Len(ColNames(node)) + 1

\* Node.set_tab
NodeSetTab(node) ==
    [node EXCEPT !.n_constrs = Len(node.constrs),
                 !.n_vars = Len(ColNames(node)),
                 !.tab = IF StackOk(node) THEN Append(TabRows(node), node.objective)
                         ELSE TabRows(node)]

\* the value Node.optimize reads for the structural column idx of the final tableau
ReadVal(tab, idx) ==
    LET m == Len(tab)
        positive == {r \in 1..(m - 1) : RGt(tab[r][idx], Zero)}
        arr == {r \in 1..m : tab[r][idx] = One}
    IN  IF Cardinality(positive) = 1 /\ Cardinality(arr) = 1
        THEN tab[CHOOSE r \in arr : TRUE][Len(tab[1])]
        ELSE Zero

\* Node.optimize on a node whose tableau can be stacked
NodeOptimize(node) ==
    LET built == NodeSetTab(node)
        res == SimplexSolve(built.tab, MaxPivots)
        solved == [built EXCEPT !.spx = res.tab, !.code = res.code]
        last == res.tab[Len(res.tab)][Len(res.tab[1])]
    IN  IF res.code = 0
        THEN [solved EXCEPT
                !.objval = IF solved.sense = "min" THEN RNeg(last) ELSE last,
                !.vars = [i \in 1..Len(solved.vars) |->
                            [solved.vars[i] EXCEPT !.val = ReadVal(res.tab, i)]]]
        ELSE solved

(* ------------------------------------------------------------------ *)
(* class Model                                                          *)
(* ------------------------------------------------------------------ *)
\* icmbkey = None
NoKey == -1
\* name=None
NoName == ""
NoFault == "none"

MaxNodes == 9
MaxCalls == 2
MaxConstrs == 2

VARIABLES
    code,        \* Model.code: -1 solving, 0 solved, 1 unbounded, 2 infeasible
    nodes,       \* Model.nodes: key -> Node
    candidates,  \* Model.candidates: keys in insertion order
    icmbkey,     \* Model.icmbkey
    icmbval,     \* Model.icmbval
    sense,       \* Model.sense
    objkey,      \* Model.objkey
    objval,      \* Model.objval
    objexpr,     \* Model.objexpr, the expression object shared with every node
    constrs,     \* Model.constrs
    pc,          \* "idle": no call in progress; "loop": inside Model.optimize
    fault,       \* the exception the last call ended with, or NoFault
    ret,         \* the handle the last add_var returned
    call,        \* the last call made and its arguments
    first,       \* key -> what the first Node.optimize on that node gave
    returned     \* what each Model.optimize call that returned left behind

vars == <<code, nodes, candidates, icmbkey, icmbval, sense, objkey, objval,
          objexpr, constrs, pc, fault, ret, call, first, returned>>

\* Model.vars holds the root node's Var objects themselves
ModelVars == nodes[0].vars

Vals(node) == [i \in 1..Len(node.vars) |-> node.vars[i].val]

\* status, objective value and variable values of a node
Result(node) == [code |-> node.code, objval |-> node.objval, vals |-> Vals(node)]

Call(op) == [op |-> op, type |-> "", lb |-> None, ub |-> None, name |-> NoName, key |-> NoKey]

Init ==
    /\ code = -1
    /\ nodes = (0 :> NodeInit(0))
    /\ candidates = <<0>>
    /\ icmbkey = NoKey
    /\ icmbval = PosInf
    /\ sense = "min"
    /\ objkey = 0
    /\ objval = PosInf
    /\ objexpr = <<>>
    /\ constrs = <<>>
    /\ pc = "idle"
    /\ fault = NoFault
    /\ ret = NoName
    /\ call = Call("Model")
    /\ first = <<>>
    /\ returned = <<>>

Building == pc = "idle" /\ fault = NoFault /\ returned = <<>>

HasVar(node, name) == \E i \in 1..Len(node.vars) : node.vars[i].name = name

\* the root node after Model.add_var's dispatch on the bounds that were given
RootAddVar(type, lb, ub, name) ==
    LET root == nodes[0]
        nm == IF name = NoName THEN AutoName(root, type) ELSE name
    IN  IF lb = None /\ ub = None THEN NodeAddVar(root, type, Zero, PosInf, nm)
        ELSE IF lb = None /\ ub # None THEN NodeAddVar(root, type, Zero, ub, nm)
        ELSE IF lb # None /\ ub = None THEN NodeAddVar(root, type, lb, PosInf, nm)
        ELSE root

\* Model.add_var(type, lb, ub, name)
AddVarCall(type, lb, ub, name) ==
    LET root == RootAddVar(type, lb, ub, name)
    IN  /\ nodes' = [nodes EXCEPT ![0] = root]
        /\ constrs' = root.constrs
        /\ call' = [Call("add_var") EXCEPT !.type = type, !.lb = lb, !.ub = ub, !.name = name]
        /\ IF HasVar(root, name)
           THEN ret' = name /\ fault' = NoFault
           ELSE ret' = NoName /\ fault' = "add_var: KeyError"
        /\ UNCHANGED <<code, candidates, icmbkey, icmbval, sense, objkey, objval,
                       objexpr, pc, first, returned>>

\* Model.add_constr(constr)
AddConstrCall(constr) ==
    LET root == NodeAddConstr(nodes[0], constr)
    IN  /\ nodes' = [nodes EXCEPT ![0] = root]
        /\ constrs' = root.constrs
        /\ call' = Call("add_constr")
        /\ UNCHANGED <<code, candidates, icmbkey, icmbval, sense, objkey, objval,
                       objexpr, pc, fault, ret, first, returned>>

\* Model.set_objective(objexpr, sense); Node.set_objective deletes the constant
\* term from the expression object it is given
SetObjectiveCall(expr, sns) ==
    /\ nodes' = [nodes EXCEPT ![0] = NodeSetObjective(@, expr, sns)]
    /\ objexpr' = IF "const" \in DOMAIN expr THEN DelKey(expr, "const") ELSE expr
    /\ IF sns = "max"
       THEN sense' = "max" /\ objval' = NegInf /\ icmbval' = NegInf
       ELSE UNCHANGED <<sense, objval, icmbval>>
    /\ call' = Call("set_objective")
    /\ UNCHANGED <<code, candidates, icmbkey, objkey, constrs, pc, fault, ret,
                   first, returned>>

\* Improves that also takes a node as good as the incumbent
ImprovesOrTies(node) ==
    \/ sense = "max" /\ RLe(icmbval, node.objval)
    \/ sense = "min" /\ RLe(node.objval, icmbval)

\* strictly better than the incumbent under the model's sense
Improves(node) ==
    \/ sense = "max" /\ RGt(node.objval, icmbval)
    \/ sense = "min" /\ RLt(node.objval, icmbval)

\* var_opts: the integer, then the binary variables whose value is not an integer
VarOpts(node) ==
    SelectSeq(OfType(node, "int") \o OfType(node, "bin"), LAMBDA v : ~RIsInt(v.val))

\* Child that keeps the key of the node it copies
ChildKeepsKey(node, key, constr) ==
    NodeSetObjective(NodeAddConstr([node EXCEPT !.code = -1], constr), objexpr, sense)

\* copy.deepcopy(node) with a new key, one more bound constraint and the
\* model's objective set again
Child(node, key, constr) ==
    NodeSetObjective(NodeAddConstr([node EXCEPT !.key = key, !.code = -1], constr),
                     objexpr, sense)

\* LeftChild with the bound one below the floor
LeftChildBelow(node, key) ==
    LET var == VarOpts(node)[1]
    IN  Child(node, key, LinConstr((var.name :> One), "<=", R(RFloor(var.val) - 1)))

\* branch down: var <= math.floor(var.val)
LeftChild(node, key) ==
    LET var == VarOpts(node)[1]
    IN  Child(node, key, LinConstr((var.name :> One), "<=", R(RFloor(var.val))))

\* RightChild with the floor in place of the ceiling
RightChildFloor(node, key) ==
    LET var == VarOpts(node)[1]
    IN  Child(node, key, LinConstr((var.name :> One), ">=", R(RFloor(var.val))))

\* branch up: var >= math.ceil(var.val)
RightChild(node, key) ==
    LET var == VarOpts(node)[1]
    IN  Child(node, key, LinConstr((var.name :> One), ">=", R(RCeil(var.val))))

\* Dropped that deletes the last key in place of the first
DroppedLast == SubSeq(candidates, 1, Len(candidates) - 1)

\* del self.candidates[key] for the first key
Dropped == SubSeq(candidates, 2, Len(candidates))

\* a fractional node that can still beat the incumbent gets two children
Branch(node, solved) ==
    LET n == Cardinality(DOMAIN solved)
    IN  /\ n + 2 <= MaxNodes
        /\ nodes' = solved @@ (n :> LeftChild(node, n)) @@ ((n + 1) :> RightChild(node, n + 1))
        /\ candidates' = Dropped \o <<n, n + 1>>
        /\ UNCHANGED <<code, icmbkey, icmbval>>

\* a fractional node that cannot beat the incumbent, or an infeasible one
Prune(node, solved) ==
    /\ nodes' = solved
    /\ candidates' = Dropped
    /\ UNCHANGED <<code, icmbkey, icmbval>>

\* an integral node
Integral(node, solved) ==
    /\ nodes' = solved
    /\ candidates' = Dropped
    /\ IF Improves(node)
       THEN icmbkey' = node.key /\ icmbval' = node.objval
       ELSE UNCHANGED <<icmbkey, icmbval>>
    /\ UNCHANGED code

\* Unbounded that also drops the node from the candidates
UnboundedDrops(node, solved) ==
    /\ nodes' = solved
    /\ code' = 1
    /\ candidates' = Dropped
    /\ UNCHANGED <<icmbkey, icmbval>>

\* an unbounded node ends the optimization
Unbounded(node, solved) ==
    /\ nodes' = solved
    /\ code' = 1
    /\ UNCHANGED <<candidates, icmbkey, icmbval>>

\* Optimize that starts the search over, whatever the status
OptimizeRestarts ==
    /\ pc = "idle"
    /\ fault = NoFault
    /\ Len(returned) < MaxCalls
    /\ nodes[0].objective # None
    /\ pc' = "loop"
    /\ call' = Call("optimize")
    /\ code' = -1
    /\ candidates' = <<0>>
    /\ UNCHANGED <<nodes, icmbkey, icmbval, sense, objkey, objval,
                   objexpr, constrs, fault, ret, first, returned>>

\* Model.optimize is entered
Optimize ==
    /\ pc = "idle"
    /\ fault = NoFault
    /\ Len(returned) < MaxCalls
    /\ nodes[0].objective # None
    /\ pc' = "loop"
    /\ call' = Call("optimize")
    /\ UNCHANGED <<code, nodes, candidates, icmbkey, icmbval, sense, objkey, objval,
                   objexpr, constrs, fault, ret, first, returned>>

\* one turn of the while loop with a candidate whose tableau Node.optimize cannot stack
SolveRaises ==
    /\ pc = "loop" /\ code = -1 /\ candidates # <<>>
    /\ ~StackOk(nodes[candidates[1]])
    /\ nodes' = [nodes EXCEPT ![candidates[1]] = NodeSetTab(@)]
    /\ fault' = "optimize: ValueError"
    /\ pc' = "idle"
    /\ UNCHANGED <<code, candidates, icmbkey, icmbval, sense, objkey, objval,
                   objexpr, constrs, ret, call, first, returned>>

\* one turn of the while loop with a candidate
SolveCandidate ==
    /\ pc = "loop" /\ code = -1 /\ candidates # <<>>
    /\ StackOk(nodes[candidates[1]])
    /\ LET key == candidates[1]
           node == NodeOptimize(nodes[key])
           solved == [nodes EXCEPT ![key] = node]
       IN  /\ node.code # -1
           /\ first' = IF key \in DOMAIN first THEN first ELSE first @@ (key :> Result(node))
           /\ IF node.code = 0
              THEN IF VarOpts(node) # <<>>
                   THEN IF Improves(node) THEN Branch(node, solved) ELSE Prune(node, solved)
                   ELSE Integral(node, solved)
              ELSE IF node.code = 1 THEN Unbounded(node, solved)
              ELSE node.code = 2 /\ Prune(node, solved)
    /\ UNCHANGED <<sense, objkey, objval, objexpr, constrs, pc, fault, ret, call, returned>>

\* one turn of the while loop with no candidate left
NoCandidates ==
    /\ pc = "loop" /\ code = -1 /\ candidates = <<>>
    /\ code' = 0
    /\ UNCHANGED <<nodes, candidates, icmbkey, icmbval, sense, objkey, objval,
                   objexpr, constrs, pc, fault, ret, call, first, returned>>

\* what a returned Model.optimize left: status, objective value, the model's
\* variable values, and the search state
Outcome(ns, key, val) ==
    [code |-> code, objval |-> val, vals |-> Vals(ns[0]), objkey |-> key,
     keys |-> DOMAIN ns, candidates |-> candidates, icmbkey |-> icmbkey, icmbval |-> icmbval]

\* the model's variables take the values of the node objkey
CopyValues(key) ==
    [nodes EXCEPT ![0].vars = [i \in 1..Len(@) |-> [@[i] EXCEPT !.val = nodes[key].vars[i].val]]]

\* the finishing part of Model.optimize, after the loop
Finish ==
    /\ pc = "loop" /\ code # -1
    /\ pc' = "idle"
    /\ IF code = 0
       THEN /\ objkey' = icmbkey
            /\ objval' = icmbval
            /\ IF icmbkey \in DOMAIN nodes
               THEN /\ nodes' = CopyValues(icmbkey)
                    /\ fault' = NoFault
                    /\ returned' = Append(returned, Outcome(CopyValues(icmbkey), icmbkey, icmbval))
               ELSE IF ModelVars = <<>>
               THEN /\ returned' = Append(returned, Outcome(nodes, icmbkey, icmbval))
                    /\ UNCHANGED <<nodes, fault>>
               ELSE /\ fault' = "optimize: KeyError"
                    /\ UNCHANGED <<nodes, returned>>
       ELSE /\ returned' = Append(returned, Outcome(nodes, objkey, objval))
            /\ UNCHANGED <<nodes, objkey, objval, fault>>
    /\ UNCHANGED <<code, candidates, icmbkey, icmbval, sense, objexpr, constrs, ret,
                   call, first>>

\* Node.optimize called once more on a node of the tree that was solved before
NodeOptimizeAgain ==
    /\ pc = "idle" /\ fault = NoFault /\ returned # <<>>
    /\ \E key \in DOMAIN nodes :
          /\ nodes[key].code # -1
          /\ StackOk(nodes[key])
          /\ NodeOptimize(nodes[key]).code # -1
          /\ nodes' = [nodes EXCEPT ![key] = NodeOptimize(@)]
          /\ call' = [Call("Node.optimize") EXCEPT !.key = key]
    /\ UNCHANGED <<code, candidates, icmbkey, icmbval, sense, objkey, objval,
                   objexpr, constrs, pc, fault, ret, first, returned>>

(* ------------------------------------------------------------------ *)
(* The calls made on a Model: inputs and the next-state relation        *)
(* ------------------------------------------------------------------ *)
Names == <<"x", "y">>
Types == {"cont", "bin", "int"}
LowerBounds == {None, R(0), R(1)}
UpperBounds == {None, R(2)}

\* 3x + 5y <= 78.8 and 4x + y <= 36.5 are the constraints of the module's driver
ConstrPool ==
    << LinConstr(("x" :> R(3)) @@ ("y" :> R(5)), "<=", Rat(788, 10)),
       LinConstr(("x" :> R(4)) @@ ("y" :> R(1)), "<=", Rat(365, 10)),
       LinConstr(("x" :> R(1)), ">=", R(5)),
       LinConstr(("x" :> R(1)), "<=", R(3)),
       LinConstr(("x" :> R(1)) @@ ("y" :> R(1)), "==", R(2)) >>

\* 5x + 4y is the objective of the module's driver
ObjPool ==
    { ("x" :> R(5)) @@ ("y" :> R(4)),
      ("x" :> R(1)),
      ("x" :> R(1)) @@ ("const" :> R(3)) }

Senses == {"min", "max"}

\* the constraint as the caller built it, before add_constr added its slack or surplus
UserPart(constr) ==
    LET keys == (DOMAIN constr.coeffs) \cap Range(Names)
    IN  [constr EXCEPT !.coeffs = [k \in keys |-> constr.coeffs[k]]]

Added(i) == \E j \in 1..Len(constrs) : UserPart(constrs[j]) = ConstrPool[i]

NumAdded == Cardinality({i \in 1..Len(ConstrPool) : Added(i)})

Declared(keys) == \A k \in keys : HasVar(nodes[0], k)

AddVar ==
    /\ Building
    /\ nodes[0].objective = None
    /\ NumAdded = 0
    /\ Len(nodes[0].vars) < Len(Names)
    /\ \E type \in Types, lb \in LowerBounds, ub \in UpperBounds,
          name \in {NoName, Names[Len(nodes[0].vars) + 1]} :
            AddVarCall(type, lb, ub, name)

AddConstr ==
    /\ Building
    /\ NumAdded < MaxConstrs
    /\ \E i \in 1..Len(ConstrPool) :
          /\ \A j \in i..Len(ConstrPool) : ~Added(j)
          /\ Declared(DOMAIN ConstrPool[i].coeffs)
          /\ AddConstrCall(ConstrPool[i])

SetObjective ==
    /\ Building
    /\ nodes[0].objective = None
    /\ \E expr \in ObjPool, sns \in Senses :
          /\ Declared((DOMAIN expr) \ {"const"})
          /\ SetObjectiveCall(expr, sns)

Next ==
    \/ AddVar
    \/ AddConstr
    \/ SetObjective
    \/ Optimize
    \/ SolveRaises
    \/ SolveCandidate
    \/ NoCandidates
    \/ Finish
    \/ NodeOptimizeAgain

Spec == Init /\ [][Next]_vars

(* ------------------------------------------------------------------ *)
(* What the claims speak of                                             *)
(* ------------------------------------------------------------------ *)
GridMax == 10

RECURSIVE RSum(_, _)
RSum(f, keys) ==
    IF keys = {} THEN Zero
    ELSE LET k == CHOOSE k \in keys : TRUE
         IN  RAdd(f[k], RSum(f, keys \ {k}))

\* name -> value of a node's decision variables
Assignment(node) ==
    [name \in Range(VarNames(node)) |->
        node.vars[CHOOSE i \in 1..Len(node.vars) : node.vars[i].name = name].val]

\* the constraint holds of the assignment a of the decision variables
Satisfies(constr, a) ==
    LET keys == (DOMAIN constr.coeffs) \cap (DOMAIN a)
        lhs == RSum([k \in keys |-> RMul(constr.coeffs[k], a[k])], keys)
    IN  IF constr.sense = "<=" THEN RLe(lhs, constr.b)
        ELSE IF constr.sense = ">=" THEN RLe(constr.b, lhs)
        ELSE lhs = constr.b

\* every integer and binary variable of the root has an integer value in a
IntegralAt(a) ==
    \A i \in 1..Len(nodes[0].vars) :
        nodes[0].vars[i].type \in {"int", "bin"} => RIsInt(a[nodes[0].vars[i].name])

\* a satisfies every constraint of the original problem
FeasibleAt(a) == \A i \in 1..Len(constrs) : Satisfies(constrs[i], a)

\* the objective the caller set, constant term included, at a: read back from
\* the root's objective row
ObjectiveAt(a) ==
    LET row == nodes[0].objective
        n == Len(row)
        names == VarNames(nodes[0])
        coef(j) == IF nodes[0].sense = "max" THEN RNeg(row[j]) ELSE row[j]
        const == IF nodes[0].sense = "max" THEN row[n] ELSE RNeg(row[n])
        idx == 1..Len(names)
    IN  RAdd(const, RSum([j \in idx |-> RMul(coef(j), a[names[j]])], idx))

Better(v, w) == IF sense = "max" THEN RGt(v, w) ELSE RLt(v, w)

\* the non-negative integer points up to GridMax
GridPoints == [Range(VarNames(nodes[0])) -> {R(i) : i \in 0..GridMax}]

Solved(k) == k \in DOMAIN nodes /\ nodes[k].code = 0

\* the model built by the module's driver: x integer, y binary, 3x + 5y <= 78.8,
\* 4x + y <= 36.5, maximize 5x + 4y
DriverModel ==
    /\ Len(nodes[0].vars) = 2
    /\ nodes[0].vars[1].name = "x" /\ nodes[0].vars[1].type = "int"
    /\ nodes[0].vars[2].name = "y" /\ nodes[0].vars[2].type = "bin"
    /\ Len(constrs) = 3
    /\ UserPart(constrs[2]) = ConstrPool[1]
    /\ UserPart(constrs[3]) = ConstrPool[2]
    /\ objexpr = ("x" :> R(5)) @@ ("y" :> R(4))
    /\ sense = "max"
    /\ StackOk(nodes[0])

C2_IncumbentFeasible ==
    icmbkey # NoKey =>
        /\ IntegralAt(Assignment(nodes[icmbkey]))
        /\ FeasibleAt(Assignment(nodes[icmbkey]))

\* C3: when Model.optimize has returned Optimal with an incumbent, no integral
\* point that satisfies every original constraint has a strictly better
\* objective value than the incumbent, neither than the value recorded for it
\* nor than the objective at the incumbent node's variable values.
C3_IncumbentOptimal ==
    (returned # <<>> /\ code = 0 /\ icmbkey # NoKey) =>
        \A a \in GridPoints :
            (IntegralAt(a) /\ FeasibleAt(a)) =>
                /\ ~Better(ObjectiveAt(a), icmbval)
                /\ ~Better(ObjectiveAt(a), ObjectiveAt(Assignment(nodes[icmbkey])))

\* the root has the constraints v >= lo and v <= hi with lo > hi on one variable
RootInfeasible ==
    \E i, j \in 1..Len(constrs) :
        /\ constrs[i].sense = ">=" /\ constrs[j].sense = "<="
        /\ UserPart(constrs[i]).coeffs = UserPart(constrs[j]).coeffs
        /\ \E name \in Range(Names) : UserPart(constrs[i]).coeffs = (name :> One)
        /\ RGt(constrs[i].b, constrs[j].b)

\* C4: when the root's relaxation is infeasible, Model.optimize ends with the
\* model status Infeasible (code 2).
C4_RootInfeasibleCode2 ==
    (RootInfeasible /\ returned # <<>>) => code = 2

\* C5: Model.optimize never raises.
C5_NeverRaises == fault \notin {"optimize: ValueError", "optimize: KeyError"}

\* the model maximize x with x continuous and no constraint
MaxXModel ==
    /\ Len(nodes[0].vars) = 1 /\ nodes[0].vars[1].type = "cont"
    /\ constrs = <<>>
    /\ objexpr = ("x" :> R(1)) /\ sense = "max"

\* C6: the turn of the loop that solves a node to Unbounded sets the model
\* status to Unbounded and leaves the candidate set, the incumbent and the tree's
\* keys as they were; from then on no candidate is solved and they stay as they
\* are; and maximize x with x >= 0 only returns Unbounded with no finite value.
C6_UnboundedStops ==
    /\ [][ /\ (code = 1) =>
                /\ code' = 1 /\ candidates' = candidates /\ first' = first
                /\ icmbkey' = icmbkey /\ icmbval' = icmbval
                /\ DOMAIN nodes' = DOMAIN nodes
           /\ (pc = "loop" /\ code = -1 /\ first' # first
                   /\ first'[candidates[1]].code = 1) =>
                /\ code' = 1 /\ candidates' = candidates
                /\ icmbkey' = icmbkey /\ icmbval' = icmbval
                /\ DOMAIN nodes' = DOMAIN nodes ]_vars
    /\ [](MaxXModel => \A i \in 1..Len(returned) :
                          returned[i].code = 1 /\ returned[i].objval = NegInf)

C6_Witness == MaxXModel /\ returned # <<>> /\ code = 1 /\ candidates = <<0>>

\* C7: a second Model.optimize leaves the same status, objective value, variable
\* values, tree keys, candidate set and incumbent as the first; a second
\* Node.optimize on a solved node gives the status, objective value and
\* variable values of its first.
C7_Idempotent ==
    /\ \A i \in 1..Len(returned) : returned[i] = returned[1]
    /\ call.op = "Node.optimize" => Result(nodes[call.key]) = first[call.key]

C7_Witness ==
    /\ Len(returned) = 2 /\ code = 0 /\ icmbkey > 0
    /\ call.op = "Node.optimize" /\ call.key = 0

\* C8: Model.add_var declares the variable in the root node and returns its handle.
C8_AddVarReturns ==
    call.op = "add_var" =>
        /\ fault = NoFault
        /\ ret # NoName /\ HasVar(nodes[0], ret)
        /\ call.name # NoName => ret = call.name

\* C9: each bound given to add_var that differs from the default is a
\* constraint of the root node.
C9_BoundsMaterialized ==
    (call.op = "add_var" /\ fault = NoFault) =>
        /\ (call.lb # None /\ call.lb # Zero) =>
              \E i \in 1..Len(constrs) :
                  UserPart(constrs[i]) = LinConstr((ret :> One), ">=", call.lb)
        /\ (call.ub # None) =>
              \E i \in 1..Len(constrs) :
                  UserPart(constrs[i]) = LinConstr((ret :> One), "<=", call.ub)

\* the bound constraints that branching added to the node k, by position
BranchBounds(k) == (Len(nodes[0].constrs) + 1)..Len(nodes[k].constrs)

\* C10: every branch strictly shrinks the range of the branched variable: a
\* bound that a branch adds on a variable is strictly tighter than each bound
\* of the same sense that an earlier branch added on it in the same node, so that
\* only finitely many branches can follow one another.
C10_BranchShrinks ==
    \A k \in DOMAIN nodes :
        \A i, j \in BranchBounds(k) :
            LET ci == nodes[k].constrs[i]
                cj == nodes[k].constrs[j]
            IN  (i < j /\ ci.sense = cj.sense
                       /\ UserPart(ci).coeffs = UserPart(cj).coeffs) =>
                    IF ci.sense = "<=" THEN RLt(cj.b, ci.b) ELSE RGt(cj.b, ci.b)

\* C11: when Model.optimize has returned Optimal with an incumbent that
\* branching created, Model.objval is the objective the caller set, constant
\* term included, at the model's variable values; stated for the incumbents
\* whose recorded value is the objective without its constant at their values.
C11_ChildKeepsConstant ==
    (returned # <<>> /\ code = 0 /\ icmbkey > 0 /\ call.op = "optimize"
        /\ icmbval = RSum([k \in DOMAIN objexpr |->
                              RMul(objexpr[k], Assignment(nodes[icmbkey])[k])],
                          DOMAIN objexpr)) =>
        objval = ObjectiveAt(Assignment(nodes[0]))

\* a turn of Model.optimize's loop that solves a node
SolvesNode ==
    /\ pc = "loop" /\ code = -1 /\ candidates # <<>>
    /\ nodes' # nodes /\ fault' = NoFault

\* C12: the node a turn of the loop solves is the first key of the candidate
\* set, which is its smallest; it was not solved before and its key is greater
\* than the key of every node solved before; no other node is touched.
C12_FirstInserted ==
    [][SolvesNode =>
          LET key == candidates[1]
          IN  /\ \A i \in 1..Len(candidates) : candidates[i] >= key
              /\ nodes[key].code = -1 /\ nodes'[key].code # -1
              /\ key \notin DOMAIN first
              /\ first' = first @@ (key :> Result(nodes'[key]))
              /\ \A k \in DOMAIN first : k < key
              /\ \A k \in (DOMAIN nodes) \ {key} : nodes'[k] = nodes[k]]_vars

C12_Witness == Cardinality(DOMAIN first) >= 4 /\ Len(candidates) >= 2 /\ icmbkey # NoKey

\* the incumbent value Model starts from under its sense
InitialIncumbent == IF sense = "max" THEN NegInf ELSE PosInf

Branches == pc = "loop" /\ DOMAIN nodes' # DOMAIN nodes

\* the integers the claims about branch bounds are checked on
BranchRange == (0 - 4 * GridMax)..(4 * GridMax)

\* C14: a branch on the first fractional integer or binary variable of the
\* solved node, with value v, gives the left child the bound variable <=
\* floor(v) and the right child the bound variable >= ceil(v) as their last
\* constraints; floor(v) < v < ceil(v) = floor(v) + 1, so that every integer
\* lies within exactly one of the two bounds.
C14_BranchPartitions ==
    [][Branches =>
          LET n == Cardinality(DOMAIN nodes)
              parent == nodes'[candidates[1]]
              var == VarOpts(parent)[1]
              lo == RFloor(var.val)
              hi == RCeil(var.val)
              left == nodes'[n].constrs[Len(nodes'[n].constrs)]
              right == nodes'[n + 1].constrs[Len(nodes'[n + 1].constrs)]
          IN  /\ ~RIsInt(var.val)
              /\ var.type \in {"int", "bin"}
              /\ UserPart(left) = LinConstr((var.name :> One), "<=", R(lo))
              /\ UserPart(right) = LinConstr((var.name :> One), ">=", R(hi))
              /\ RLt(R(lo), var.val) /\ RLt(var.val, R(hi)) /\ hi = lo + 1
              /\ \A z \in BranchRange :
                    Satisfies(left, (var.name :> R(z))) # Satisfies(right, (var.name :> R(z)))]_vars

\* two branches have been made, one of them on a value between 8 and 9
C14_Witness ==
    /\ Cardinality(DOMAIN nodes) >= 5
    /\ \E k \in DOMAIN nodes :
          /\ k > 0 /\ (k + 1) \in DOMAIN nodes
          /\ UserPart(nodes[k].constrs[Len(nodes[k].constrs)]).sense = "<="
          /\ nodes[k].constrs[Len(nodes[k].constrs)].b = R(8)
          /\ nodes[k + 1].constrs[Len(nodes[k + 1].constrs)].b = R(9)

\* the objective row with a zero for one more column before its right-hand side
ExtendedRow(row) == SubSeq(row, 1, Len(row) - 1) \o <<Zero>> \o <<row[Len(row)]>>

\* child is parent plus one bound constraint, not yet solved, with the
\* parent's sense and objective row
IsChildOf(child, parent) ==
    /\ VarNames(child) = VarNames(parent)
    /\ \A i \in 1..Len(parent.vars) : child.vars[i].type = parent.vars[i].type
    /\ Len(child.constrs) = Len(parent.constrs) + 1
    /\ SubSeq(child.constrs, 1, Len(parent.constrs)) = parent.constrs
    /\ Len(child.slacks) + Len(child.surplus) = Len(parent.slacks) + Len(parent.surplus) + 1
    /\ child.code = -1
    /\ child.sense = parent.sense
    /\ child.objective = ExtendedRow(parent.objective)

\* C15: a branch adds exactly two nodes to the tree, each the solved node plus
\* one bound constraint, with status Solving, the parent's sense and the
\* parent's objective row, right-hand side included, extended by a zero.
C15_ChildrenCopyParent ==
    [][Branches =>
          LET n == Cardinality(DOMAIN nodes)
              parent == nodes'[candidates[1]]
          IN  /\ DOMAIN nodes' = (DOMAIN nodes) \cup {n, n + 1}
              /\ IsChildOf(nodes'[n], parent)
              /\ IsChildOf(nodes'[n + 1], parent)]_vars

\* C16: a step of Model.optimize, its finishing step included, leaves the
\* constraint list, status, objective value and variable values of every node
\* that was solved before as they are.
C16_SolvedNodesKept ==
    [][pc = "loop" =>
          \A k \in DOMAIN nodes :
              nodes[k].code # -1 =>
                  /\ k \in DOMAIN nodes'
                  /\ nodes'[k].constrs = nodes[k].constrs
                  /\ Result(nodes'[k]) = Result(nodes[k])]_vars

\* C17: the tree's keys are 0..n-1, each node stored under its own key; the
\* candidate keys are keys of the tree, in increasing order without repeats;
\* a step never removes a key from the tree, gives new nodes the keys n and
\* n + 1, and never puts a key of the tree that is not a candidate back among
\* the candidates.
C17_Bookkeeping ==
    /\ [](/\ DOMAIN nodes = 0..(Cardinality(DOMAIN nodes) - 1)
          /\ \A k \in DOMAIN nodes : nodes[k].key = k
          /\ \A i \in 1..Len(candidates) : candidates[i] \in DOMAIN nodes
          /\ \A i, j \in 1..Len(candidates) : i < j => candidates[i] < candidates[j])
    /\ [][LET n == Cardinality(DOMAIN nodes)
          IN  /\ DOMAIN nodes \subseteq DOMAIN nodes'
              /\ DOMAIN nodes' \in {DOMAIN nodes, (DOMAIN nodes) \cup {n, n + 1}}
              /\ \A k \in DOMAIN nodes :
                    k \notin Range(candidates) => k \notin Range(candidates')]_vars

\* the node k was solved to a fractional point that does not beat the incumbent
\* and was dropped from the candidates without being branched
Pruned(k) ==
    /\ k \in DOMAIN first /\ k \notin Range(candidates)
    /\ nodes[k].code = 0 /\ VarOpts(nodes[k]) # <<>>
    /\ icmbkey # NoKey /\ icmbkey < k
    /\ ~Better(nodes[k].objval, icmbval)

\* nodes were dropped as branched, as integral and as pruned, and are in the tree
C17_Witness ==
    /\ Cardinality(DOMAIN nodes) >= 7
    /\ \E k \in DOMAIN nodes : Pruned(k)
    /\ icmbkey \in DOMAIN nodes /\ icmbkey \notin Range(candidates)

\* the column idx of a final tableau is a unit column among the constraint
\* rows: one entry 1 and every other constraint-row entry 0
UnitColumn(tab, idx) ==
    LET rows == 1..(Len(tab) - 1)
    IN  \E r \in rows : /\ tab[r][idx] = One
                         /\ \A q \in rows \ {r} : tab[q][idx] = Zero

\* C18: on status Optimal a structural variable whose column is not a unit
\* column among the constraint rows of the final tableau gets the value 0, and
\* one whose column is a unit column gets 0 or the right-hand side of the row
\* that holds its 1.
C18_UnitColumnReadout ==
    \A k \in DOMAIN first :
        first[k].code = 0 =>
            \A i \in 1..Len(first[k].vals) :
                LET tab == nodes[k].spx
                    rows == 1..(Len(tab) - 1)
                IN  IF UnitColumn(tab, i)
                    THEN first[k].vals[i] \in
                            {Zero, tab[CHOOSE r \in rows : tab[r][i] = One][Len(tab[1])]}
                    ELSE first[k].vals[i] = Zero

(* ------------------------------------------------------------------ *)
(* The same calls with names the caller is free to choose               *)
(* ------------------------------------------------------------------ *)
NamePool == {"x", "s1", "p1"}

\* the bound constraints a caller can put on the declared variable name
NamedConstrs(name) ==
    { LinConstr((name :> R(2)), "<=", R(3)),
      LinConstr((name :> One), ">=", One) }

AddVarNamed ==
    /\ Building
    /\ Len(nodes[0].vars) < Len(Names)
    /\ \E type \in Types, name \in NamePool \ Range(VarNames(nodes[0])) :
          AddVarCall(type, None, None, name)

AddConstrNamed ==
    /\ Building
    /\ Len(constrs) < MaxConstrs
    /\ \E name \in Range(VarNames(nodes[0])) :
          \E constr \in NamedConstrs(name) : AddConstrCall(constr)

SetObjectiveNamed ==
    /\ Building
    /\ nodes[0].objective = None
    /\ \E name \in Range(VarNames(nodes[0])), sns \in Senses :
          SetObjectiveCall((name :> One), sns)

NextNames ==
    \/ AddVarNamed
    \/ AddConstrNamed
    \/ SetObjectiveNamed
    \/ Optimize
    \/ SolveRaises
    \/ SolveCandidate
    \/ NoCandidates
    \/ Finish

SpecNames == Init /\ [][NextNames]_vars

\* the positions of the constraints of node that mention the name
Mentions(node, name) == {i \in 1..Len(node.constrs) : name \in DOMAIN node.constrs[i].coeffs}

\* C19: in every node every <= constraint carries exactly one slack, with
\* coefficient +1, and no surplus; every >= constraint exactly one surplus, with
\* coefficient -1, and no slack; every == constraint neither; and the names of
\* the decision variables, slacks and surplus of the node are all different,
\* each slack and surplus being mentioned by one constraint only.
C19_FreshSlacks ==
    \A k \in DOMAIN nodes :
        LET node == nodes[k]
            names == ColNames(node)
            S(c) == (DOMAIN c.coeffs) \cap Range(node.slacks)
            P(c) == (DOMAIN c.coeffs) \cap Range(node.surplus)
        IN  /\ \A i \in 1..Len(node.constrs) :
                  LET c == node.constrs[i]
                  IN  IF c.sense = "<="
                      THEN /\ Cardinality(S(c)) = 1 /\ P(c) = {}
                           /\ \A s \in S(c) : c.coeffs[s] = One
                      ELSE IF c.sense = ">="
                      THEN /\ Cardinality(P(c)) = 1 /\ S(c) = {}
                           /\ \A p \in P(c) : c.coeffs[p] = RNeg(One)
                      ELSE S(c) = {} /\ P(c) = {}
            /\ \A i, j \in 1..Len(names) : i < j => names[i] # names[j]
            /\ \A a \in Range(node.slacks) \cup Range(node.surplus) :
                  Cardinality(Mentions(node, a)) = 1

\* the coefficient of the name in the constraint, 0 if it has none
CoeffOf(constr, name) ==
    IF name \in DOMAIN constr.coeffs THEN constr.coeffs[name] ELSE Zero

\* the tableau of node has one row per constraint and the objective row as its
\* last row, and one column per structural variable, slack and surplus, in
\* this order, and the right-hand side as its last column
WellFormedTab(node) ==
    LET tab == node.tab
        names == ColNames(node)
        n == Len(names)
        m == Len(node.constrs)
    IN  /\ Len(tab) = m + 1
        /\ \A r \in 1..Len(tab) : Len(tab[r]) = n + 1
        /\ \A i \in 1..m :
              /\ i \in 1..Len(tab)
              /\ tab[i][Len(tab[i])] = node.constrs[i].b
              /\ \A j \in 1..n : j < Len(tab[i]) =>
                    tab[i][j] = CoeffOf(node.constrs[i], names[j])
        /\ tab[Len(tab)] = node.objective
        /\ \A j \in (Len(node.vars) + 1)..n : node.objective[j] = Zero

\* Node.set_tab has been called on the node k after its last change
TabBuilt(k) ==
    \/ nodes[k].code # -1
    \/ fault = "optimize: ValueError" /\ candidates # <<>> /\ k = candidates[1]

\* C20: a tableau that Node.set_tab has built has (#constraints + 1) rows and
\* (#variables + #slacks + #surplus + 1) columns, the columns in the order
\* structural variables, slacks, surplus, right-hand side, and the objective row
\* as its last row, in whatever order the node was declared.
C20_TableauShape == \A k \in DOMAIN nodes : TabBuilt(k) => WellFormedTab(nodes[k])

====
